---------------------------- MODULE Spec2Model ----------------------------
(***************************************************************************)
(* unsigned_mul_hi (src/nativeInterop/cinterop/unsigned_mul_hi.c):         *)
(*                                                                         *)
(*   uint64_t unsigned_mul_hi(uint64_t x, uint64_t y) {                    *)
(*       __uint128_t p = (__uint128_t)x * (__uint128_t)y;                  *)
(*       return (uint64_t)(p >> 64);                                       *)
(*   }                                                                     *)
(*                                                                         *)
(* TLC's integers are 32 bits wide, so a uint64_t or __uint128_t object is *)
(* held as its bytes, least significant first (8 resp. 16 of them), and    *)
(* the C operators are computed on the bytes with their C semantics:       *)
(* zero extension, multiplication reduced modulo 2^width, logical right    *)
(* shift, conversion to a narrower unsigned type modulo 2^width.           *)
(*                                                                         *)
(* Each caller (thread) runs the function's two statements as two steps on *)
(* an activation record of its own (x, y, p are automatic objects).        *)
(***************************************************************************)
EXTENDS Integers, Sequences, FiniteSets

VARIABLES
    pc,      \* pc[t]: "ready" (not in a call), "line4", "line5", "trap"
    x,       \* x[t]: first argument of t's current (or last) call
    y,       \* y[t]: second argument of t's current (or last) call
    p,       \* p[t]: the local __uint128_t p of t's activation, <<>> when none
    ret,     \* ret[t]: value returned by t's last call, <<>> when none yet
    seen     \* an observer's note of one earlier completed call <<x, y, ret>>, or <<>>

vars == <<pc, x, y, p, ret, seen>>

----------------------------------------------------------------------------
(* Widths of the C types involved.                                         *)

CHAR_BIT == 8

UINT64_WIDTH == 64

UINT128_WIDTH == 128

Radix == 2^CHAR_BIT

NBytes(w) == w \div CHAR_BIT

Zeros(n) == [i \in 1..n |-> 0]

Ones(n) == [i \in 1..n |-> Radix - 1]

IsUInt(v, w) == /\ Len(v) = NBytes(w)
                /\ \A i \in 1..Len(v) : v[i] \in 0..(Radix - 1)

----------------------------------------------------------------------------
(* Bounds of the model and the operands the callers pass.                  *)

NThreads == 2

NumInputs == 10

Zero64 == Zeros(NBytes(UINT64_WIDTH))

One64 == <<1>> \o Zeros(NBytes(UINT64_WIDTH) - 1)

Max64 == Ones(NBytes(UINT64_WIDTH))

\* 2^64-1, 2^32, 0, 1, 2, 2^63, 0xDEADBEEFCAFEBABE, 1000000007,
\* 1000000009, 0x0123456789ABCDEF, 2^32-1, 3
Corpus ==
    << Max64,
       <<0, 0, 0, 0, 1, 0, 0, 0>>,
       Zero64,
       One64,
       <<2, 0, 0, 0, 0, 0, 0, 0>>,
       <<0, 0, 0, 0, 0, 0, 0, 128>>,
       <<190, 186, 254, 202, 239, 190, 173, 222>>,
       <<7, 202, 154, 59, 0, 0, 0, 0>>,
       <<9, 202, 154, 59, 0, 0, 0, 0>>,
       <<239, 205, 171, 137, 103, 69, 35, 1>>,
       <<255, 255, 255, 255, 0, 0, 0, 0>>,
       <<3, 0, 0, 0, 0, 0, 0, 0>> >>

Inputs == {Corpus[i] : i \in 1..NumInputs}

ThreadInputs == {Corpus[1], Corpus[2]}

----------------------------------------------------------------------------
(* The C operators of lines 4 and 5, on byte strings.                      *)

\* Variant: the operand taken as signed (int64_t), so that the conversion
\* sign-extends.
WidenSigned(v, w) ==
    v \o (IF v[Len(v)] >= Radix \div 2 THEN Ones(NBytes(w) - Len(v))
                                       ELSE Zeros(NBytes(w) - Len(v)))

\* (__uint128_t)v for an unsigned v: zero extension to w bits.
Widen(v, w) == v \o Zeros(NBytes(w) - Len(v))

\* (uintN_t)v for a wider unsigned v: reduction modulo 2^w.
Narrow(v, w) == SubSeq(v, 1, NBytes(w))

\* a * b for two unsigned operands of w bits: the product modulo 2^w, by long
\* multiplication.  Column k sums the a[i] * b[j] with i + j = k + 1; its low
\* byte is byte k of the product and the rest is carried into column k + 1.
\* The carry out of the last column is dropped.
MulMod(a, b, w) ==
    LET n == NBytes(w)
        column(k) ==
            LET sum[i \in 1..(k + 1)] ==
                    IF i > k THEN 0 ELSE a[i] * b[k + 1 - i] + sum[i + 1]
            IN  sum[1]
        cols[k \in 1..(n + 1), carry \in Nat] ==
            IF k > n THEN <<>>
            ELSE LET t == column(k) + carry
                 IN  <<t % Radix>> \o cols[k + 1, t \div Radix]
    IN  cols[1, 0]

\* v >> s for an unsigned v and 0 <= s < width(v): zeros are shifted in.
ShiftRight(v, s) ==
    LET q == s \div CHAR_BIT
        r == s % CHAR_BIT
        at(i) == IF i <= Len(v) THEN v[i] ELSE 0
    IN  [i \in 1..Len(v) |->
            (at(i + q) \div 2^r + at(i + q + 1) * 2^(CHAR_BIT - r)) % Radix]

\* Variant: (__uint128_t)(x * y), the multiplication done in uint64_t.
ProductNarrow(a, b) ==
    Widen(MulMod(a, b, UINT64_WIDTH), UINT128_WIDTH)

\* Variant: (__uint128_t)x * (__uint128_t)x.
ProductSquared(a, b) ==
    MulMod(Widen(a, UINT128_WIDTH), Widen(a, UINT128_WIDTH), UINT128_WIDTH)

\* Variant: (__uint128_t)x * (__uint128_t)(int64_t)y.
ProductSignedRight(a, b) ==
    MulMod(Widen(a, UINT128_WIDTH), WidenSigned(b, UINT128_WIDTH), UINT128_WIDTH)

\* Line 4: (__uint128_t)x * (__uint128_t)y
Product(a, b) ==
    MulMod(Widen(a, UINT128_WIDTH), Widen(b, UINT128_WIDTH), UINT128_WIDTH)

\* Variant: p >> 128.
ShiftFullWidth == UINT128_WIDTH

\* Variant: p >> 32.
HalfWordShift == UINT64_WIDTH \div 2

\* Line 5: the shift count of p >> 64
ShiftCount == 64

\* Variant: (uint64_t)p, the shift left out.
HighWordLow(q) == Narrow(q, UINT64_WIDTH)

\* Line 5: (uint64_t)(p >> 64)
HighWord(q) == Narrow(ShiftRight(q, ShiftCount), UINT64_WIDTH)

\* The function run alone, start to end.
UnsignedMulHi(a, b) == HighWord(Product(a, b))

----------------------------------------------------------------------------
(* The callers.                                                            *)

SoleCaller == {1}

Callers == 1..NThreads

InitOn(T) ==
    /\ pc = [t \in T |-> "ready"]
    /\ x = [t \in T |-> <<>>]
    /\ y = [t \in T |-> <<>>]
    /\ p = [t \in T |-> <<>>]
    /\ ret = [t \in T |-> <<>>]
    /\ seen = <<>>

\* Line 3: the call binds the parameters; p is not yet initialised.
Call(t, a, b) ==
    /\ pc[t] = "ready"
    /\ pc' = [pc EXCEPT ![t] = "line4"]
    /\ x' = [x EXCEPT ![t] = a]
    /\ y' = [y EXCEPT ![t] = b]
    /\ ret' = [ret EXCEPT ![t] = <<>>]
    /\ UNCHANGED <<p, seen>>

\* Variant: static __uint128_t p, one object shared by all activations.
Line4Static(t) ==
    /\ pc[t] = "line4"
    /\ p' = [u \in DOMAIN p |-> Product(x[t], y[t])]
    /\ pc' = [pc EXCEPT ![t] = "line5"]
    /\ UNCHANGED <<x, y, ret, seen>>

\* Line 4: __uint128_t p = (__uint128_t)x * (__uint128_t)y;
Line4(t) ==
    /\ pc[t] = "line4"
    /\ p' = [p EXCEPT ![t] = Product(x[t], y[t])]
    /\ pc' = [pc EXCEPT ![t] = "line5"]
    /\ UNCHANGED <<x, y, ret, seen>>

\* Line 5: return (uint64_t)(p >> 64);
\* A shift count not below the width of p's type is undefined behaviour: the
\* build may trap, mask the count (p >> 0) or produce zero.
Line5(t) ==
    /\ pc[t] = "line5"
    /\ IF ShiftCount < UINT128_WIDTH
       THEN /\ ret' = [ret EXCEPT ![t] = HighWord(p[t])]
            /\ pc' = [pc EXCEPT ![t] = "ready"]
       ELSE \E outcome \in {"trap", "masked", "zero"} :
              /\ pc' = [pc EXCEPT ![t] = IF outcome = "trap" THEN "trap" ELSE "ready"]
              /\ ret' = [ret EXCEPT ![t] =
                            IF outcome = "masked" THEN Narrow(p[t], UINT64_WIDTH)
                            ELSE IF outcome = "zero" THEN Zero64
                            ELSE <<>>]
    /\ p' = [p EXCEPT ![t] = <<>>]
    /\ seen' \in {seen} \cup (IF pc'[t] = "ready" THEN {<<x[t], y[t], ret'[t]>>} ELSE {})
    /\ UNCHANGED <<x, y>>

Init == InitOn(SoleCaller)

Next ==
    \E t \in SoleCaller :
        \/ \E a \in Inputs, b \in Inputs : Call(t, a, b)
        \/ Line4(t)
        \/ Line5(t)

\* One caller, the whole corpus.
Spec == Init /\ [][Next]_vars

InitThreads == InitOn(Callers)

NextThreads ==
    \E t \in Callers :
        \/ \E a \in ThreadInputs, b \in ThreadInputs : Call(t, a, b)
        \/ Line4(t)
        \/ Line5(t)

\* Several callers at once, interleaved statement by statement.
SpecThreads == InitThreads /\ [][NextThreads]_vars

----------------------------------------------------------------------------
(* Reference arithmetic on natural numbers of any size, written in         *)
(* hexadecimal digits, least significant first, and computed by long       *)
(* multiplication one digit of the multiplier at a time.  Nothing here is  *)
(* reduced modulo anything.                                                *)

Hex(v) ==
    [i \in 1..(2 * Len(v)) |->
        IF i % 2 = 1 THEN v[(i + 1) \div 2] % 16 ELSE v[i \div 2] \div 16]

RECURSIVE NatNorm(_)
NatNorm(a) ==
    IF a = <<>> THEN <<>>
    ELSE IF a[Len(a)] = 0 THEN NatNorm(SubSeq(a, 1, Len(a) - 1))
    ELSE a

Digit(a, i) == IF i <= Len(a) THEN a[i] ELSE 0

\* a + b
NatAdd(a, b) ==
    LET n == (IF Len(a) > Len(b) THEN Len(a) ELSE Len(b)) + 1
        sum[i \in 1..(n + 1), c \in 0..1] ==
            IF i > n THEN <<>>
            ELSE LET t == Digit(a, i) + Digit(b, i) + c
                 IN  <<t % 16>> \o sum[i + 1, t \div 16]
    IN  NatNorm(sum[1, 0])

\* a * d for one digit d
NatScale(a, d) ==
    LET n == Len(a) + 1
        row[i \in 1..(n + 1), c \in 0..15] ==
            IF i > n THEN <<>>
            ELSE LET t == Digit(a, i) * d + c
                 IN  <<t % 16>> \o row[i + 1, t \div 16]
    IN  NatNorm(row[1, 0])

\* a * b, from the most significant digit of b down: s becomes a * b[j] + 16 * s
NatMul(a, b) ==
    LET acc[j \in 0..Len(b), s \in Seq(0..15)] ==
            IF j = 0 THEN s
            ELSE acc[j - 1, NatAdd(NatScale(a, b[j]), <<0>> \o s)]
    IN  NatNorm(acc[Len(b), <<>>])

\* floor(a / 2^k), k a multiple of 4
NatDivPow2(a, k) == SubSeq(a, k \div 4 + 1, Len(a))

\* a < b for two digit strings of the same length
RECURSIVE NatLess(_, _)
NatLess(a, b) ==
    IF a = <<>> THEN FALSE
    ELSE LET n == Len(a)
         IN  IF a[n] # b[n] THEN a[n] < b[n]
             ELSE NatLess(SubSeq(a, 1, n - 1), SubSeq(b, 1, n - 1))

\* floor(a * b / 2^64) of the exact product
RefMulHi(a, b) == NatNorm(NatDivPow2(NatMul(Hex(a), Hex(b)), 64))

Returned(t) == pc[t] = "ready" /\ ret[t] # <<>>

InCall(t) == pc[t] \in {"line4", "line5"}

\* 2^64 - 2
MaxHigh == <<254, 255, 255, 255, 255, 255, 255, 255>>

\* 2^128 - 2^65 + 1
MaxProduct == <<1, 0, 0, 0, 0, 0, 0, 0, 254, 255, 255, 255, 255, 255, 255, 255>>

\* The statements of a call are straight-line code: a caller inside the call
\* keeps being scheduled until it returns.
SpecFair ==
    Spec /\ \A t \in SoleCaller : WF_vars(Line4(t)) /\ WF_vars(Line5(t))

----------------------------------------------------------------------------
(* The claims.                                                             *)

\* C1: every returned value is floor(x * y / 2^64), bits [127:64] of the
\* exact product as the reference arithmetic computes it.
C1_HighHalfOfExactProduct ==
    \A t \in DOMAIN pc :
        Returned(t) => NatNorm(Hex(ret[t])) = RefMulHi(x[t], y[t])

\* 0xDEADBEEFCAFEBABE * 0x0123456789ABCDEF has returned 0x00FD5BDEEEB2A01D
C1_Witness ==
    \E t \in DOMAIN pc :
        /\ Returned(t)
        /\ x[t] = Corpus[7]
        /\ y[t] = Corpus[10]
        /\ ret[t] = <<29, 160, 178, 238, 222, 91, 253, 0>>

\* C2: the function is total: no call ever traps, every call that has been
\* made can take its next step and goes on to return, and what it returns
\* is a value of uint64_t.
C2_NoTrap ==
    \A t \in DOMAIN pc :
        /\ pc[t] \in {"ready", "line4", "line5"}
        /\ InCall(t) => ENABLED (Line4(t) \/ Line5(t))
        /\ (pc[t] = "ready" /\ x[t] # <<>>) => IsUInt(ret[t], UINT64_WIDTH)

C2_Total ==
    /\ []C2_NoTrap
    /\ \A t \in SoleCaller : (pc[t] = "line4") ~> Returned(t)

\* a call with both operands 2^64-1 has returned a uint64_t
C2_Witness ==
    \E t \in DOMAIN pc :
        /\ Returned(t)
        /\ x[t] = Max64
        /\ y[t] = Max64
        /\ IsUInt(ret[t], UINT64_WIDTH)

\* C3: the function is pure and deterministic: a call returns what any
\* earlier call with the same arguments returned, whatever calls were made
\* in between or at the same time, and a step of one call changes nothing
\* but that call's own arguments, product and result.
C3_SameInputsSameOutput ==
    \A t \in DOMAIN pc :
        /\ (Returned(t) /\ seen # <<>> /\ seen[1] = x[t] /\ seen[2] = y[t])
               => seen[3] = ret[t]
        /\ \A u \in DOMAIN pc :
               (Returned(t) /\ Returned(u) /\ x[t] = x[u] /\ y[t] = y[u])
                  => ret[t] = ret[u]

C3_OwnStateOnly ==
    \A t \in DOMAIN pc :
        pc'[t] = pc[t] =>
            /\ x'[t] = x[t]
            /\ y'[t] = y[t]
            /\ p'[t] = p[t]
            /\ ret'[t] = ret[t]

C3_Pure == []C3_SameInputsSameOutput /\ [][C3_OwnStateOnly]_vars

\* a call repeats an earlier call's arguments and result while another
\* caller is inside a call with other arguments
C3_Witness ==
    \E t \in DOMAIN pc, u \in DOMAIN pc :
        /\ t # u
        /\ Returned(t)
        /\ seen = <<x[t], y[t], ret[t]>>
        /\ pc[u] = "line5"
        /\ <<x[u], y[u]>> # <<x[t], y[t]>>

\* C4: commutativity: a call with arguments (y, x) returns what an earlier
\* call with arguments (x, y) returned.
C4_Commutative ==
    \A t \in DOMAIN pc :
        (Returned(t) /\ seen # <<>> /\ seen[1] = y[t] /\ seen[2] = x[t])
            => seen[3] = ret[t]

\* (2^32, 2^64-1) has returned 2^32-1 after (2^64-1, 2^32) did
C4_Witness ==
    \E t \in DOMAIN pc :
        /\ Returned(t)
        /\ x[t] = Corpus[2]
        /\ y[t] = Max64
        /\ seen = <<Max64, Corpus[2], Corpus[11]>>
        /\ ret[t] = Corpus[11]

\* C5: zero absorption: a call with a zero argument returns zero.
C5_ZeroAbsorbs ==
    \A t \in DOMAIN pc :
        (Returned(t) /\ (x[t] = Zero64 \/ y[t] = Zero64)) => ret[t] = Zero64

\* (2^64-1, 0) has returned 0
C5_Witness ==
    \E t \in DOMAIN pc :
        Returned(t) /\ x[t] = Max64 /\ y[t] = Zero64 /\ ret[t] = Zero64

\* C6: a call whose second argument is 1 returns zero.
C6_TimesOne ==
    \A t \in DOMAIN pc :
        (Returned(t) /\ y[t] = One64) => ret[t] = Zero64

\* (2^64-1, 1) has returned 0
C6_Witness ==
    \E t \in DOMAIN pc :
        Returned(t) /\ x[t] = Max64 /\ y[t] = One64 /\ ret[t] = Zero64

\* C7: (2^64-1, 2^64-1) returns 2^64-2, and no call returns more.
C7_Maximum ==
    \A t \in DOMAIN pc :
        Returned(t) =>
            /\ ~NatLess(MaxHigh, ret[t])
            /\ (x[t] = Max64 /\ y[t] = Max64) => ret[t] = MaxHigh

\* (2^64-1, 2^64-1) has returned 2^64-2
C7_Witness ==
    \E t \in DOMAIN pc :
        Returned(t) /\ x[t] = Max64 /\ y[t] = Max64 /\ ret[t] = MaxHigh

\* C8: with several callers interleaved statement by statement, every call
\* holds and returns what the function run alone yields for its arguments,
\* and no caller inside a call ever waits for another.
C8_ThreadSafe ==
    \A t \in DOMAIN pc :
        /\ Returned(t) => ret[t] = UnsignedMulHi(x[t], y[t])
        /\ pc[t] = "line5" => HighWord(p[t]) = UnsignedMulHi(x[t], y[t])
        /\ InCall(t) => ENABLED (Line4(t) \/ Line5(t))

\* one caller has returned 2^64-2 for (2^64-1, 2^64-1) while another holds
\* the product of (2^32, 2^32), not yet returned
C8_Witness ==
    \E t \in DOMAIN pc, u \in DOMAIN pc :
        /\ t # u
        /\ Returned(t)
        /\ x[t] = Max64 /\ y[t] = Max64 /\ ret[t] = MaxHigh
        /\ pc[u] = "line5"
        /\ x[u] = Corpus[2] /\ y[u] = Corpus[2]
        /\ p[u] # <<>>

\* C9: the 128-bit product is the exact product x * y, at most
\* 2^128 - 2^65 + 1, and p >> 64 is below 2^64: converting it to uint64_t
\* and back gives it again.
C9_NoOverflow ==
    \A t \in DOMAIN pc :
        pc[t] = "line5" =>
            /\ NatNorm(Hex(p[t])) = NatNorm(NatMul(Hex(x[t]), Hex(y[t])))
            /\ ~NatLess(MaxProduct, p[t])
            /\ Widen(Narrow(ShiftRight(p[t], ShiftCount), UINT64_WIDTH), UINT128_WIDTH)
                  = ShiftRight(p[t], ShiftCount)

\* p holds (2^64-1)^2 = 2^128 - 2^65 + 1
C9_Witness ==
    \E t \in DOMAIN pc :
        pc[t] = "line5" /\ x[t] = Max64 /\ y[t] = Max64 /\ p[t] = MaxProduct

\* C10: with both arguments at least 1, the returned value is below both.
C10_BelowOperands ==
    \A t \in DOMAIN pc :
        (Returned(t) /\ x[t] # Zero64 /\ y[t] # Zero64)
            => NatLess(ret[t], x[t]) /\ NatLess(ret[t], y[t])

\* (2^64-1, 2^64-1) has returned 2^64-2, one below both
C10_Witness ==
    \E t \in DOMAIN pc :
        /\ Returned(t)
        /\ x[t] = Max64 /\ y[t] = Max64
        /\ NatLess(ret[t], x[t])
        /\ ~NatLess(ret[t], MaxHigh)

=============================================================================
